---- MODULE Spec2Model ----
(***************************************************************************)
(* Release-Note-Aggregator: the run of main (fetch, select, merge, render, *)
(* write), the section parser and compare_semver, as state machines.       *)
(*                                                                         *)
(* Text is modelled as a sequence of one-character strings, a body as the  *)
(* sequence of its lines (what body.lines() yields), and a HashMap as a    *)
(* function whose iteration order is chosen anew at every iteration.       *)
(***************************************************************************)
EXTENDS Integers, Sequences, FiniteSets, TLC

VARIABLES
    cli,                  \* the parsed command line (struct Cli)
    response,             \* the releases the GitHub API returned, or HttpError
    pc,                   \* position of main
    all_releases,         \* main: all_releases
    releases_to_process,  \* main: releases_to_process
    merged,               \* main: merged_sections / merged_by_heading
    markdown,             \* main: markdown (the lines of the document)
    outcome,              \* how the run ended
    run,                  \* 1 for the first run on these inputs, 2 for the re-run
    first_markdown,       \* what the first run wrote
    parse_body,           \* parser harness: the body handed to parse_release_notes
    parse_pc,             \* parser harness: position
    parse_sections,       \* parser harness: the returned map
    semver_tags,          \* comparison harness: the tags handed to compare_semver
    semver_pc,            \* comparison harness: position
    semver_cmp            \* comparison harness: the returned orderings

vars == <<cli, response, pc, all_releases, releases_to_process, merged, markdown,
          outcome, run, first_markdown, parse_body, parse_pc, parse_sections,
          semver_tags, semver_pc, semver_cmp>>

pipeline_vars == <<cli, response, pc, all_releases, releases_to_process, merged,
                   markdown, outcome, run, first_markdown>>

parser_vars == <<parse_body, parse_pc, parse_sections>>

semver_vars == <<semver_tags, semver_pc, semver_cmp>>

-----------------------------------------------------------------------------
(* Bounds of the model *)

MaxReleases == 3        \* releases in the API response (selection inputs)
MaxVersions == 2        \* tags in the --versions list
MaxMergeReleases == 2   \* releases in the API response (merge inputs)
MaxBodyLen == 4         \* lines of a body handed to the parser alone

-----------------------------------------------------------------------------
(* Text *)

WhiteSpace == {" ", "\t"}

Digits == <<"0", "1", "2", "3", "4", "5", "6", "7", "8", "9">>

UpperCase ==
    <<"A", "B", "C", "D", "E", "F", "G", "H", "I", "J", "K", "L", "M",
      "N", "O", "P", "Q", "R", "S", "T", "U", "V", "W", "X", "Y", "Z">>

LowerCase ==
    <<"a", "b", "c", "d", "e", "f", "g", "h", "i", "j", "k", "l", "m",
      "n", "o", "p", "q", "r", "s", "t", "u", "v", "w", "x", "y", "z">>

IndexIn(table, c) == CHOOSE i \in 1..Len(table) : table[i] = c

\* The byte of a character.
CharCode(c) ==
    CASE c = "\t" -> 9
      [] c = " " -> 32
      [] c = "#" -> 35
      [] c = "(" -> 40
      [] c = ")" -> 41
      [] c = "*" -> 42
      [] c = "+" -> 43
      [] c = "," -> 44
      [] c = "-" -> 45
      [] c = "." -> 46
      [] c = ":" -> 58
      [] \E i \in 1..Len(Digits) : Digits[i] = c -> 47 + IndexIn(Digits, c)
      [] \E i \in 1..Len(UpperCase) : UpperCase[i] = c -> 64 + IndexIn(UpperCase, c)
      [] \E i \in 1..Len(LowerCase) : LowerCase[i] = c -> 96 + IndexIn(LowerCase, c)

\* Ordering of String::cmp: bytewise lexicographic, a proper prefix is smaller.
StrCmp(a, b) ==
    LET diff == {i \in 1..Len(a) : i > Len(b) \/ a[i] # b[i]}
        first == CHOOSE i \in diff : \A j \in diff : i <= j
    IN  IF diff = {}
        THEN IF Len(a) = Len(b) THEN "Equal" ELSE "Less"
        ELSE IF first > Len(b) THEN "Greater"
        ELSE IF CharCode(a[first]) < CharCode(b[first]) THEN "Less" ELSE "Greater"

\* str::trim: leading and trailing whitespace removed.
Trim(s) ==
    LET idx == {i \in 1..Len(s) : s[i] \notin WhiteSpace}
        lo == CHOOSE i \in idx : \A j \in idx : i <= j
        hi == CHOOSE i \in idx : \A j \in idx : j <= i
    IN  IF idx = {} THEN <<>> ELSE SubSeq(s, lo, hi)

\* All orders in which the keys S of a HashMap can be iterated.
IterationOrders(S) ==
    {f \in [1..Cardinality(S) -> S] : \A i, j \in 1..Cardinality(S) : f[i] = f[j] => i = j}

\* slice::sort_by, a stable sort: an element's place is the number of elements that
\* sort before it, elements comparing Equal keeping their order.
SortBy(s, Cmp(_, _)) ==
    LET before(i) == {j \in 1..Len(s) :
                        j # i /\ (Cmp(s[j], s[i]) = "Less"
                                  \/ (Cmp(s[i], s[j]) # "Less" /\ j < i))}
    IN  [k \in 1..Len(s) |->
            s[CHOOSE i \in 1..Len(s) : Cardinality(before(i)) = k - 1]]

-----------------------------------------------------------------------------
(* parse_release_notes *)

Uncategorized == <<"U", "n", "c", "a", "t", "e", "g", "o", "r", "i", "z", "e", "d">>

MaxHeadingDepth == 6

\* The ways the line matches ^(#{1,6})\s+(.+)$ : k hashes, m whitespace characters
\* and at least one more character.
HeadingMatches(line) ==
    {s \in (1..MaxHeadingDepth) \X (1..Len(line)) :
        /\ s[1] + s[2] + 1 <= Len(line)
        /\ \A i \in 1..s[1] : line[i] = "#"
        /\ \A i \in (s[1] + 1)..(s[1] + s[2]) : line[i] \in WhiteSpace}

\* Mutant of IsHeading: only headings of depth 1 and 2 divide sections.
IsHeadingShallow(line) == \E s \in HeadingMatches(line) : s[1] <= 2

IsHeading(line) == HeadingMatches(line) # {}

\* captures.get(2): both repetitions are greedy, so the longest runs are taken.
HeadingCapture(line) ==
    LET s == CHOOSE s \in HeadingMatches(line) :
                \A t \in HeadingMatches(line) :
                    t[1] < s[1] \/ (t[1] = s[1] /\ t[2] <= s[2])
    IN  SubSeq(line, s[1] + s[2] + 1, Len(line))

\* Mutant of RetainNonEmpty: sections without content are kept.
RetainAll(sections) == sections

\* sections.retain(|_, lines| !lines.is_empty())
RetainNonEmpty(sections) ==
    [name \in {n \in DOMAIN sections : sections[n] # <<>>} |-> sections[name]]

RECURSIVE ParseLines(_, _, _, _)
\* The loop over body.lines() from line i on.
ParseLines(lines, i, sections, current_section) ==
    IF i > Len(lines) THEN sections
    ELSE IF IsHeading(lines[i])
    THEN LET name == Trim(HeadingCapture(lines[i]))
         IN  ParseLines(lines, i + 1,
                        IF name \in DOMAIN sections THEN sections
                        ELSE sections @@ (name :> <<>>),
                        name)
    ELSE IF Trim(lines[i]) # <<>>
    THEN ParseLines(lines, i + 1,
                    [sections EXCEPT ![current_section] = Append(@, lines[i])],
                    current_section)
    ELSE ParseLines(lines, i + 1, sections, current_section)

ParseReleaseNotes(body) ==
    RetainNonEmpty(ParseLines(body, 1, (Uncategorized :> <<>>), Uncategorized))

-----------------------------------------------------------------------------
(* Options, releases, timestamps *)

\* Option<T>: None is the empty sequence, Some(x) the sequence holding x.
NoneOpt == <<>>
Some(x) == <<x>>
IsSome(o) == o # <<>>
Unwrap(o) == o[1]

\* A published_at string: whether it is RFC 3339, and the local day (of January
\* 2023), hour and UTC offset (hours) it then states.
Timestamp(day, hour, offset) ==
    [valid |-> TRUE, day |-> day, hour |-> hour, offset |-> offset]
BadTimestamp == [valid |-> FALSE, day |-> 0, hour |-> 0, offset |-> 0]

\* chrono::DateTime::parse_from_rfc3339(..).unwrap() panics on this string.
ParsePanics(published_at) == ~published_at.valid

\* parse_from_rfc3339(..).unwrap().naive_utc(), in hours.
NaiveUtc(published_at) ==
    published_at.day * 24 + published_at.hour - published_at.offset

\* .naive_utc().date(), the day of January 2023.
NaiveUtcDate(published_at) == NaiveUtc(published_at) \div 24

IntCmp(a, b) == IF a < b THEN "Less" ELSE IF a = b THEN "Equal" ELSE "Greater"

\* Mutant of NewestFirst: the operands of cmp swapped.
OldestFirst(a, b) == IntCmp(NaiveUtc(a.published_at), NaiveUtc(b.published_at))

\* The closure of both date sorts: date_b.cmp(&date_a).
NewestFirst(a, b) == IntCmp(NaiveUtc(b.published_at), NaiveUtc(a.published_at))

\* sort_by calls its closure on every element once the slice has two elements, and
\* the closure unwraps the parse of both dates.
SortPanics(releases) ==
    Len(releases) >= 2 /\ \E i \in 1..Len(releases) : ParsePanics(releases[i].published_at)

SortNewestFirst(releases) == SortBy(releases, NewestFirst)

\* Mutant of Position: a tag that is not found counts as found at the first release.
PositionOrFirst(releases, tag) ==
    LET hits == {i \in 1..Len(releases) : releases[i].tag_name = tag}
    IN  IF hits = {} THEN 1 ELSE CHOOSE i \in hits : \A j \in hits : i <= j

\* iter().position(|r| r.tag_name == tag): 0 when there is none, else the first index.
Position(releases, tag) ==
    LET hits == {i \in 1..Len(releases) : releases[i].tag_name = tag}
    IN  IF hits = {} THEN 0 ELSE CHOOSE i \in hits : \A j \in hits : i <= j

Running == [kind |-> "running", tags |-> <<>>]
Ended(kind, tags) == [kind |-> kind, tags |-> tags]

-----------------------------------------------------------------------------
(* fetch_all_releases *)

\* Mutant of DropPrereleases: nothing is dropped.
KeepPrereleases(releases) == releases

\* releases.into_iter().filter(|r| !r.prerelease)
DropPrereleases(releases) == SelectSeq(releases, LAMBDA r : ~r.prerelease)

FilteredReleases ==
    IF ~cli.include_prereleases THEN DropPrereleases(response.releases)
    ELSE response.releases

FetchAllReleases ==
    /\ pc = "fetch"
    /\ IF response.status # "ok"
       THEN /\ outcome' = Ended("http_error", <<>>)
            /\ pc' = "done"
            /\ UNCHANGED all_releases
       ELSE IF SortPanics(FilteredReleases)
       THEN /\ outcome' = Ended("panic", <<>>)
            /\ pc' = "done"
            /\ UNCHANGED all_releases
       ELSE /\ all_releases' = SortNewestFirst(FilteredReleases)
            /\ pc' = "select"
            /\ UNCHANGED outcome
    /\ UNCHANGED <<cli, response, releases_to_process, merged, markdown, run,
                   first_markdown>>
    /\ UNCHANGED <<parser_vars, semver_vars>>

\* main: if all_releases.is_empty() { return Ok(()) }
NoReleases ==
    /\ pc = "select"
    /\ all_releases = <<>>
    /\ outcome' = Ended("no_releases", <<>>)
    /\ pc' = "done"
    /\ UNCHANGED <<cli, response, all_releases, releases_to_process, merged, markdown,
                   run, first_markdown>>
    /\ UNCHANGED <<parser_vars, semver_vars>>

-----------------------------------------------------------------------------
(* filter_releases_by_tags *)

RECURSIVE FindTagsFirstMissing(_, _, _, _, _)
\* Mutant of FindTags: only the first missing tag is kept.
FindTagsFirstMissing(releases, tags, i, filtered_releases, missing_tags) ==
    IF i > Len(tags) THEN <<filtered_releases, missing_tags>>
    ELSE LET at == Position(releases, tags[i])
         IN  IF at # 0
             THEN FindTagsFirstMissing(releases, tags, i + 1,
                                       Append(filtered_releases, releases[at]), missing_tags)
             ELSE FindTagsFirstMissing(releases, tags, i + 1, filtered_releases,
                                       IF missing_tags = <<>> THEN <<tags[i]>>
                                       ELSE missing_tags)

RECURSIVE FindTags(_, _, _, _, _)
\* The loop over tags from the i-th on: <<filtered_releases, missing_tags>>.
FindTags(releases, tags, i, filtered_releases, missing_tags) ==
    IF i > Len(tags) THEN <<filtered_releases, missing_tags>>
    ELSE LET at == Position(releases, tags[i])
         IN  IF at # 0
             THEN FindTags(releases, tags, i + 1,
                           Append(filtered_releases, releases[at]), missing_tags)
             ELSE FindTags(releases, tags, i + 1,
                           filtered_releases, Append(missing_tags, tags[i]))

\* The result: an error naming the missing tags, a panic of the sort, or the releases.
FilterReleasesByTags(releases, tags) ==
    LET found == FindTags(releases, tags, 1, <<>>, <<>>)
    IN  IF found[2] # <<>>
        THEN [kind |-> "missing_tags", tags |-> found[2], releases |-> <<>>]
        ELSE IF SortPanics(found[1])
        THEN [kind |-> "panic", tags |-> <<>>, releases |-> <<>>]
        ELSE [kind |-> "ok", tags |-> <<>>, releases |-> SortNewestFirst(found[1])]

\* Ends main on an error or a panic of the selection, else goes on to the merge.
Selected(result) ==
    IF result.kind = "ok"
    THEN /\ releases_to_process' = result.releases
         /\ pc' = "merge"
         /\ UNCHANGED outcome
    ELSE /\ outcome' = Ended(result.kind, result.tags)
         /\ pc' = "done"
         /\ UNCHANGED releases_to_process

SelectByTags ==
    /\ pc = "select"
    /\ all_releases # <<>>
    /\ IsSome(cli.versions)
    /\ Selected(FilterReleasesByTags(all_releases, Unwrap(cli.versions)))
    /\ UNCHANGED <<cli, response, all_releases, merged, markdown, run, first_markdown>>
    /\ UNCHANGED <<parser_vars, semver_vars>>

-----------------------------------------------------------------------------
(* filter_releases_by_range *)

\* Mutant of Slice: the upper index is excluded.
SliceExclusive(releases, lo, hi) ==
    IF hi - 1 < lo THEN <<>> ELSE SubSeq(releases, lo, hi - 1)

\* Mutant of Slice: the lower index is excluded.
SliceAfter(releases, lo, hi) ==
    IF hi < lo + 1 THEN <<>> ELSE SubSeq(releases, lo + 1, hi)

\* releases.iter().enumerate().filter(|(i, _)| lo <= i <= hi), indices from 1.
Slice(releases, lo, hi) ==
    IF hi < lo THEN <<>> ELSE SubSeq(releases, lo, hi)

FilterReleasesByRange(releases, start_tag, end_tag) ==
    LET start_index == Position(releases, Unwrap(start_tag))
        end_index == Position(releases, Unwrap(end_tag))
        lower_index == IF start_index <= end_index THEN start_index ELSE end_index
        higher_index == IF start_index <= end_index THEN end_index ELSE start_index
        ok(rs) == [kind |-> "ok", tags |-> <<>>, releases |-> rs]
        notFound(kind, tag) == [kind |-> kind, tags |-> <<tag>>, releases |-> <<>>]
    IN  IF IsSome(start_tag) /\ IsSome(end_tag)
        THEN IF start_index = 0 THEN notFound("start_tag_not_found", Unwrap(start_tag))
             ELSE IF end_index = 0 THEN notFound("end_tag_not_found", Unwrap(end_tag))
             ELSE ok(Slice(releases, lower_index, higher_index))
        ELSE IF IsSome(start_tag)
        THEN IF start_index = 0 THEN notFound("start_tag_not_found", Unwrap(start_tag))
             ELSE ok(Slice(releases, start_index, Len(releases)))
        ELSE IF IsSome(end_tag)
        THEN IF end_index = 0 THEN notFound("end_tag_not_found", Unwrap(end_tag))
             ELSE ok(Slice(releases, 1, end_index))
        ELSE ok(releases)

SelectByRange ==
    /\ pc = "select"
    /\ all_releases # <<>>
    /\ ~IsSome(cli.versions)
    /\ IsSome(cli.start_tag) \/ IsSome(cli.end_tag)
    /\ Selected(FilterReleasesByRange(all_releases, cli.start_tag, cli.end_tag))
    /\ UNCHANGED <<cli, response, all_releases, merged, markdown, run, first_markdown>>
    /\ UNCHANGED <<parser_vars, semver_vars>>

\* main: neither --versions nor a range: every release is processed.
SelectAll ==
    /\ pc = "select"
    /\ all_releases # <<>>
    /\ ~IsSome(cli.versions)
    /\ ~IsSome(cli.start_tag)
    /\ ~IsSome(cli.end_tag)
    /\ releases_to_process' = all_releases
    /\ pc' = "merge"
    /\ UNCHANGED <<cli, response, all_releases, merged, markdown, outcome, run,
                   first_markdown>>
    /\ UNCHANGED <<parser_vars, semver_vars>>

-----------------------------------------------------------------------------
(* merge_release_notes *)

\* The parse of a release's body; a release without a body is skipped in every pass.
SectionsOf(release) ==
    IF IsSome(release.body) THEN ParseReleaseNotes(Unwrap(release.body)) ELSE <<>>

\* First pass: the names of all sections of all releases.
KnownSections(releases) ==
    UNION {DOMAIN SectionsOf(releases[i]) : i \in 1..Len(releases)}

\* The second pass unwraps the date of every release that has a body.
MergePanics(releases) ==
    \E i \in 1..Len(releases) :
        IsSome(releases[i].body) /\ ParsePanics(releases[i].published_at)

\* For every release, an order in which its map of sections is iterated.
SectionOrders(releases) ==
    {f \in [1..Len(releases) ->
              UNION {IterationOrders(DOMAIN SectionsOf(releases[i])) : i \in 1..Len(releases)}] :
        \A i \in 1..Len(releases) : f[i] \in IterationOrders(DOMAIN SectionsOf(releases[i]))}

\* Mutant of PushItems: a line the bucket already holds is not pushed again.
PushItemsOnce(merged_sections, section_name, items, release) ==
    [merged_sections EXCEPT ![section_name] =
        @ \o [k \in 1..Len(SelectSeq(items, LAMBDA c :
                                \A m \in 1..Len(merged_sections[section_name]) :
                                    merged_sections[section_name][m].content # c)) |->
                [content |-> SelectSeq(items, LAMBDA c :
                                \A m \in 1..Len(merged_sections[section_name]) :
                                    merged_sections[section_name][m].content # c)[k],
                 version |-> release.tag_name,
                 date |-> NaiveUtcDate(release.published_at)]]]

\* for item in items: the items of one section of one release are pushed.
PushItems(merged_sections, section_name, items, release) ==
    [merged_sections EXCEPT ![section_name] =
        @ \o [k \in 1..Len(items) |->
                [content |-> items[k],
                 version |-> release.tag_name,
                 date |-> NaiveUtcDate(release.published_at)]]]

RECURSIVE PushSections(_, _, _, _, _)
\* for (section_name, items) in sections, from the j-th section of the order on.
PushSections(merged_sections, sections, order, j, release) ==
    IF j > Len(order) THEN merged_sections
    ELSE PushSections(PushItems(merged_sections, order[j], sections[order[j]], release),
                      sections, order, j + 1, release)

RECURSIVE PopulateSections(_, _, _, _)
\* Second pass, from the i-th release on.
PopulateSections(merged_sections, releases, i, orders) ==
    IF i > Len(releases) THEN merged_sections
    ELSE IF ~IsSome(releases[i].body)
    THEN PopulateSections(merged_sections, releases, i + 1, orders)
    ELSE PopulateSections(
             PushSections(merged_sections, SectionsOf(releases[i]), orders[i], 1,
                          releases[i]),
             releases, i + 1, orders)

\* merge_release_notes, its maps iterated in the given orders.
MergeReleaseNotes(releases, orders) ==
    PopulateSections([name \in KnownSections(releases) |-> <<>>], releases, 1, orders)

MergeByVersion ==
    /\ pc = "merge"
    /\ ~cli.merge_headings
    /\ IF MergePanics(releases_to_process)
       THEN /\ outcome' = Ended("panic", <<>>)
            /\ pc' = "done"
            /\ UNCHANGED merged
       ELSE /\ \E orders \in SectionOrders(releases_to_process) :
                   merged' = MergeReleaseNotes(releases_to_process, orders)
            /\ pc' = "render"
            /\ UNCHANGED outcome
    /\ UNCHANGED <<cli, response, all_releases, releases_to_process, markdown, run,
                   first_markdown>>
    /\ UNCHANGED <<parser_vars, semver_vars>>

-----------------------------------------------------------------------------
(* merge_release_notes_by_heading *)

RECURSIVE AddContentsUntrimmed(_, _, _, _)
\* Mutant of AddContents: the lines are keyed as they are, untrimmed.
AddContentsUntrimmed(section_content, items, k, version) ==
    IF k > Len(items) THEN section_content
    ELSE LET present == IF items[k] \in DOMAIN section_content
                        THEN section_content
                        ELSE section_content @@ (items[k] :> <<>>)
         IN  AddContentsUntrimmed([present EXCEPT ![items[k]] = Append(@, version)],
                                  items, k + 1, version)

RECURSIVE AddContents(_, _, _, _)
\* for item in items: the tag is pushed to the versions of every trimmed line.
AddContents(section_content, items, k, version) ==
    IF k > Len(items) THEN section_content
    ELSE LET normalized_content == Trim(items[k])
             present == IF normalized_content \in DOMAIN section_content
                        THEN section_content
                        ELSE section_content @@ (normalized_content :> <<>>)
         IN  AddContents([present EXCEPT ![normalized_content] = Append(@, version)],
                         items, k + 1, version)

RECURSIVE AddSections(_, _, _, _, _)
\* for (section_name, items) in sections, from the j-th section of the order on.
AddSections(content_map, sections, order, j, version) ==
    IF j > Len(order) THEN content_map
    ELSE LET present == IF order[j] \in DOMAIN content_map THEN content_map
                        ELSE content_map @@ (order[j] :> <<>>)
         IN  AddSections(
                 [present EXCEPT ![order[j]] =
                     AddContents(@, sections[order[j]], 1, version)],
                 sections, order, j + 1, version)

RECURSIVE CollectContents(_, _, _, _)
\* Second pass, from the i-th release on: section -> trimmed line -> versions.
CollectContents(content_map, releases, i, orders) ==
    IF i > Len(releases) THEN content_map
    ELSE IF ~IsSome(releases[i].body)
    THEN CollectContents(content_map, releases, i + 1, orders)
    ELSE CollectContents(
             AddSections(content_map, SectionsOf(releases[i]), orders[i], 1,
                         releases[i].tag_name),
             releases, i + 1, orders)

\* The closure of merged_items.sort_by: more sources first, then by content.
MostCommonFirst(a, b) ==
    LET source_cmp == IntCmp(Len(b.sources), Len(a.sources))
    IN  IF source_cmp = "Equal" THEN StrCmp(a.content, b.content) ELSE source_cmp

\* Third pass for one section: the items in an iteration order of the contents, sorted.
MergedItems(content_items, order) ==
    SortBy([k \in 1..Len(order) |->
               [content |-> order[k], sources |-> content_items[order[k]]]],
           MostCommonFirst)

\* The lists of items the third pass can build for one section.
MergedItemLists(content_items) ==
    {MergedItems(content_items, order) : order \in IterationOrders(DOMAIN content_items)}

\* merge_release_notes_by_heading: the maps it can return.
MergeReleaseNotesByHeading(releases) ==
    UNION {LET content_map == CollectContents(<<>>, releases, 1, orders)
           IN  {m @@ [name \in KnownSections(releases) |-> <<>>] :
                    m \in {f \in [DOMAIN content_map ->
                                   UNION {MergedItemLists(content_map[n]) :
                                             n \in DOMAIN content_map}] :
                              \A n \in DOMAIN content_map :
                                  f[n] \in MergedItemLists(content_map[n])}}
           : orders \in SectionOrders(releases)}

MergeByHeading ==
    /\ pc = "merge"
    /\ cli.merge_headings
    /\ merged' \in MergeReleaseNotesByHeading(releases_to_process)
    /\ pc' = "render"
    /\ UNCHANGED <<cli, response, all_releases, releases_to_process, markdown, outcome,
                   run, first_markdown>>
    /\ UNCHANGED <<parser_vars, semver_vars>>

-----------------------------------------------------------------------------
(* generate_markdown *)

\* Mutant of SectionCmp: the names are compared as strings, no name is special.
SectionCmpLexical(a, b) == StrCmp(a, b)

\* The closure of section_names.sort_by: "Uncategorized" last, else by name.
SectionCmp(a, b) ==
    IF a = Uncategorized THEN "Greater"
    ELSE IF b = Uncategorized THEN "Less"
    ELSE StrCmp(a, b)

\* The sorted section names, for every order in which the keys can be collected.
SortedSectionNames(merged_sections) ==
    {SortBy(order, SectionCmp) : order \in IterationOrders(DOMAIN merged_sections)}

TwoDigits(n) == <<Digits[(n \div 10) + 1], Digits[(n % 10) + 1]>>

\* date.format("%Y-%m-%d") of a day of January 2023.
FormatDate(date) == <<"2", "0", "2", "3", "-", "0", "1", "-">> \o TwoDigits(date)

Title ==
    <<"#", " ", "A", "g", "g", "r", "e", "g", "a", "t", "e", "d", " ",
      "R", "e", "l", "e", "a", "s", "e", " ", "N", "o", "t", "e", "s">>

SectionHeading(section_name) == <<"#", "#", " ">> \o section_name

VersionHeading(version, date) ==
    <<"#", "#", "#", " ">> \o version \o <<" ", "(">> \o FormatDate(date) \o <<")">>

\* The keys of the map versions: the (version, date) pairs of the items.
VersionKeys(items) ==
    {<<items[k].version, items[k].date>> : k \in 1..Len(items)}

\* versions[key]: the items of the pair, in arrival order.
VersionItems(items, key) ==
    SelectSeq(items, LAMBDA item : <<item.version, item.date>> = key)

\* Mutant of NewestDateFirst: the groups are sorted oldest date first.
OldestDateFirst(a, b) == IntCmp(a[2], b[2])

\* The closure of version_entries.sort_by: b.0.1.cmp(&a.0.1), newest date first.
NewestDateFirst(a, b) == IntCmp(b[2], a[2])

RECURSIVE VersionBlocks(_, _, _)
\* The lines of the groups from the j-th entry on.
VersionBlocks(items, version_entries, j) ==
    IF j > Len(version_entries) THEN <<>>
    ELSE LET key == version_entries[j]
             version_items == VersionItems(items, key)
         IN  <<VersionHeading(key[1], key[2]), <<>>>>
             \o [k \in 1..Len(version_items) |-> version_items[k].content]
             \o <<<<>>>>
             \o VersionBlocks(items, version_entries, j + 1)

\* The lines of one section, the map versions iterated in the given order.
VersionSection(section_name, items, order) ==
    <<SectionHeading(section_name), <<>>>>
    \o VersionBlocks(items, SortBy(order, NewestDateFirst), 1)

\* The texts one section can get.
VersionSectionTexts(section_name, items) ==
    {VersionSection(section_name, items, order) :
        order \in IterationOrders(VersionKeys(items))}

RECURSIVE Documents(_, _, _)
\* The texts of the sections from the j-th name on, texts[name] being the texts a
\* section can get.
Documents(section_names, j, texts) ==
    IF j > Len(section_names) THEN {<<>>}
    ELSE {head \o tail :
            head \in texts[section_names[j]],
            tail \in Documents(section_names, j + 1, texts)}

\* generate_markdown: the documents it can return.
GenerateMarkdown(merged_sections) ==
    UNION {{<<Title, <<>>>> \o text :
              text \in Documents(section_names, 1,
                                  [name \in DOMAIN merged_sections |->
                                      VersionSectionTexts(name, merged_sections[name])])}
           : section_names \in SortedSectionNames(merged_sections)}

RenderByVersion ==
    /\ pc = "render"
    /\ ~cli.merge_headings
    /\ markdown' \in GenerateMarkdown(merged)
    /\ pc' = "write"
    /\ UNCHANGED <<cli, response, all_releases, releases_to_process, merged, outcome,
                   run, first_markdown>>
    /\ UNCHANGED <<parser_vars, semver_vars>>

-----------------------------------------------------------------------------
(* generate_markdown_merged_headings *)

MergedTitle ==
    Title \o <<" ", "(", "M", "e", "r", "g", "e", "d", " ", "b", "y", " ",
               "H", "e", "a", "d", "i", "n", "g", ")">>

RECURSIVE Join(_, _)
\* sorted_sources.join(", ")
Join(strings, separator) ==
    IF strings = <<>> THEN <<>>
    ELSE IF Len(strings) = 1 THEN strings[1]
    ELSE strings[1] \o separator \o Join(Tail(strings), separator)

PresentInVersions(sources_list) ==
    <<"*", "(", "P", "r", "e", "s", "e", "n", "t", " ", "i", "n", " ",
      "v", "e", "r", "s", "i", "o", "n", "s", ":", " ">> \o sources_list \o <<")", "*">>

FromVersion(source) ==
    <<"*", "(", "F", "r", "o", "m", " ", "v", "e", "r", "s", "i", "o", "n", ":", " ">>
    \o source \o <<")", "*">>

\* The lines of one item: its content and the note on its sources.
MergedItemLines(item) ==
    IF Len(item.sources) > 1
    THEN <<item.content, PresentInVersions(Join(SortBy(item.sources, StrCmp), <<",", " ">>)),
           <<>>>>
    ELSE IF item.sources # <<>>
    THEN <<item.content, FromVersion(item.sources[1]), <<>>>>
    ELSE <<item.content, <<>>>>

RECURSIVE MergedItemsLines(_, _)
MergedItemsLines(items, k) ==
    IF k > Len(items) THEN <<>>
    ELSE MergedItemLines(items[k]) \o MergedItemsLines(items, k + 1)

\* The lines of one section.
MergedSection(section_name, items) ==
    <<SectionHeading(section_name), <<>>>> \o MergedItemsLines(items, 1) \o <<<<>>>>

\* generate_markdown_merged_headings: the documents it can return.
GenerateMarkdownMergedHeadings(merged_sections) ==
    UNION {{<<MergedTitle, <<>>>> \o text :
              text \in Documents(section_names, 1,
                                  [name \in DOMAIN merged_sections |->
                                      {MergedSection(name, merged_sections[name])}])}
           : section_names \in SortedSectionNames(merged_sections)}

RenderByHeading ==
    /\ pc = "render"
    /\ cli.merge_headings
    /\ markdown' \in GenerateMarkdownMergedHeadings(merged)
    /\ pc' = "write"
    /\ UNCHANGED <<cli, response, all_releases, releases_to_process, merged, outcome,
                   run, first_markdown>>
    /\ UNCHANGED <<parser_vars, semver_vars>>

-----------------------------------------------------------------------------
(* main: the file is written; the run may be repeated on the same inputs *)

WriteOutput ==
    /\ pc = "write"
    /\ outcome' = Ended("ok", <<>>)
    /\ pc' = "done"
    /\ UNCHANGED <<cli, response, all_releases, releases_to_process, merged, markdown,
                   run, first_markdown>>
    /\ UNCHANGED <<parser_vars, semver_vars>>

\* main is started again with the same command line, the API returning the same.
Rerun ==
    /\ pc = "done"
    /\ run = 1
    /\ outcome.kind = "ok"
    /\ run' = 2
    /\ first_markdown' = markdown
    /\ pc' = "fetch"
    /\ all_releases' = <<>>
    /\ releases_to_process' = <<>>
    /\ merged' = <<>>
    /\ markdown' = <<>>
    /\ outcome' = Running
    /\ UNCHANGED <<cli, response>>
    /\ UNCHANGED <<parser_vars, semver_vars>>

-----------------------------------------------------------------------------
(* helpers.rs: extract_version, is_semver, compare_semver *)

\* extract_version: capture 1 of ^[vV]?(.+)$, a leading v is dropped when more follows.
ExtractVersion(tag_name) ==
    IF Len(tag_name) >= 2 /\ tag_name[1] \in {"v", "V"} THEN Tail(tag_name)
    ELSE tag_name

DigitChars == {Digits[i] : i \in 1..Len(Digits)}

\* [0-9A-Za-z-]
IdentifierChars ==
    DigitChars \cup {UpperCase[i] : i \in 1..Len(UpperCase)}
    \cup {LowerCase[i] : i \in 1..Len(LowerCase)} \cup {"-"}

RECURSIVE Split(_, _)
\* str::split(sep).collect(): the parts between the separators, empty parts included.
Split(s, sep) ==
    LET at == {i \in 1..Len(s) : s[i] = sep}
        first == CHOOSE i \in at : \A j \in at : i <= j
    IN  IF at = {} THEN <<s>>
        ELSE <<SubSeq(s, 1, first - 1)>> \o Split(SubSeq(s, first + 1, Len(s)), sep)

\* s matches [0-9A-Za-z-]+(?:\.[0-9A-Za-z-]+)*
DottedIdentifiers(s) ==
    \A k \in 1..Len(Split(s, ".")) :
        /\ Split(s, ".")[k] # <<>>
        /\ \A i \in 1..Len(Split(s, ".")[k]) : Split(s, ".")[k][i] \in IdentifierChars

\* s matches (\d+)\.(\d+)\.(\d+)
ThreeNumbers(s) ==
    /\ Len(Split(s, ".")) = 3
    /\ \A k \in 1..3 :
          /\ Split(s, ".")[k] # <<>>
          /\ \A i \in 1..Len(Split(s, ".")[k]) : Split(s, ".")[k][i] \in DigitChars

\* The text before the first occurrence of sep, all of s when there is none.
Before(s, sep) == Split(s, sep)[1]

\* The text after the first occurrence of sep, which occurs in s.
After(s, sep) == SubSeq(s, Len(Before(s, sep)) + 2, Len(s))

\* is_semver: after one leading v or V, three numbers, then an optional -prerelease
\* (which ends at the first +) and an optional +build.
IsSemver(tag) ==
    LET bare == IF tag # <<>> /\ tag[1] \in {"v", "V"} THEN Tail(tag) ELSE tag
        unbuilt == Before(bare, "+")
    IN  /\ ThreeNumbers(Before(unbuilt, "-"))
        /\ unbuilt # Before(unbuilt, "-") => DottedIdentifiers(After(unbuilt, "-"))
        /\ bare # unbuilt => DottedIdentifiers(After(bare, "+"))

\* u32::MAX in decimal.
U32Max == <<"4", "2", "9", "4", "9", "6", "7", "2", "9", "5">>

RECURSIVE StripZeros(_)
\* A number in decimal without its leading zeros; zero is the empty text.
StripZeros(digits) ==
    IF digits # <<>> /\ Head(digits) = "0" THEN StripZeros(Tail(digits)) ELSE digits

\* The ordering of two numbers written in decimal without leading zeros.
DecimalCmp(a, b) ==
    IF Len(a) # Len(b) THEN IntCmp(Len(a), Len(b)) ELSE StrCmp(a, b)

\* str::parse::<u32>: an optional + and digits that do not exceed u32::MAX, as the
\* number in decimal without leading zeros; None for any other text.
ParseU32(s) ==
    LET digits == IF s # <<>> /\ s[1] = "+" THEN Tail(s) ELSE s
    IN  IF digits = <<>> \/ \E i \in 1..Len(digits) : digits[i] \notin DigitChars
        THEN NoneOpt
        ELSE IF DecimalCmp(StripZeros(digits), U32Max) = "Greater" THEN NoneOpt
        ELSE Some(StripZeros(digits))

\* Option::unwrap_or
UnwrapOr(o, default) == IF IsSome(o) THEN Unwrap(o) ELSE default

RECURSIVE CompareParts(_, _, _)
\* for i in 0..3, from the i-th part on (parts counted from 1 here).
CompareParts(v1, v2, i) ==
    IF i > 3 THEN "Equal"
    ELSE IF i > Len(v1) \/ i > Len(v2) THEN IntCmp(Len(v1), Len(v2))
    ELSE LET n1 == UnwrapOr(ParseU32(v1[i]), <<>>)
             n2 == UnwrapOr(ParseU32(v2[i]), <<>>)
         IN  IF DecimalCmp(n1, n2) = "Equal" THEN CompareParts(v1, v2, i + 1)
             ELSE DecimalCmp(n1, n2)

\* compare_semver
CompareSemver(tag1, tag2) ==
    LET clean1 == ExtractVersion(tag1)
        clean2 == ExtractVersion(tag2)
    IN  IF ~IsSemver(clean1) \/ ~IsSemver(clean2) THEN StrCmp(clean1, clean2)
        ELSE CompareParts(Split(clean1, "."), Split(clean2, "."), 1)

\* compare_semver called on every pair of three tags.
CompareTags ==
    /\ semver_pc = "call"
    /\ semver_cmp' = [pair \in (1..3) \X (1..3) |->
                         CompareSemver(semver_tags[pair[1]], semver_tags[pair[2]])]
    /\ semver_pc' = "returned"
    /\ UNCHANGED semver_tags
    /\ UNCHANGED <<pipeline_vars, parser_vars>>

-----------------------------------------------------------------------------
(* parse_release_notes called on a body alone *)

ParseBody ==
    /\ parse_pc = "call"
    /\ parse_sections' = ParseReleaseNotes(parse_body)
    /\ parse_pc' = "returned"
    /\ UNCHANGED parse_body
    /\ UNCHANGED <<pipeline_vars, semver_vars>>

-----------------------------------------------------------------------------
(* Inputs *)

\* The tag of the i-th release of the response: v1, v2, ...
Tag(i) == <<"v", Digits[i + 1]>>

\* A tag no release has.
AbsentTag == <<"v", "0">>

\* Sequences over S of lengths lo..hi.
SeqsOf(S, lo, hi) == UNION {[1..k -> S] : k \in lo..hi}

\* The responses of up to n releases, tagged v1.. in response order.
Responses(n, timestamps, bodies, prereleases) ==
    {[status |-> "ok",
      releases |-> [i \in 1..Len(f) |->
                      [tag_name |-> Tag(i),
                       body |-> f[i].body,
                       published_at |-> f[i].published_at,
                       prerelease |-> f[i].prerelease]]] :
        f \in SeqsOf([body : bodies, published_at : timestamps, prerelease : prereleases],
                     0, n)}
    \cup {[status |-> "error", releases |-> <<>>]}

Cli(versions, start_tag, end_tag, include_prereleases, merge_headings) ==
    [versions |-> versions, start_tag |-> start_tag, end_tag |-> end_tag,
     include_prereleases |-> include_prereleases, merge_headings |-> merge_headings]

HeadingF == <<"#", " ", "F">>
HeadingF2 == <<"#", "#", " ", "F">>
HeadingZ == <<"#", " ", "Z">>
LineX == <<"x">>
LineXIndented == <<" ", "x">>
LineY == <<"y">>
LineU == <<"u">>

\* Inputs that exercise the selection: releases without a body.
SelectionTimestamps == {BadTimestamp, Timestamp(1, 10, 0), Timestamp(2, 10, 0)}

SelectionTags == {Tag(i) : i \in 1..MaxReleases} \cup {AbsentTag}

SelectionResponses ==
    Responses(MaxReleases, SelectionTimestamps, {NoneOpt}, BOOLEAN)

SelectionClis ==
    {Cli(Some(tags), NoneOpt, NoneOpt, p, FALSE) :
        tags \in SeqsOf(SelectionTags, 1, MaxVersions), p \in BOOLEAN}
    \cup {Cli(NoneOpt, s, e, p, FALSE) :
             s \in {NoneOpt} \cup {Some(t) : t \in SelectionTags},
             e \in {NoneOpt} \cup {Some(t) : t \in SelectionTags},
             p \in BOOLEAN}
    \cup {Cli(NoneOpt, NoneOpt, NoneOpt, p, m) : p \in BOOLEAN, m \in BOOLEAN}

\* Inputs that exercise the merge and the rendering: releases with bodies.
MergeTimestamps ==
    {BadTimestamp, Timestamp(1, 10, 0), Timestamp(2, 1, 2), Timestamp(2, 10, 0)}

MergeBodies ==
    {NoneOpt,
     Some(<<HeadingF, LineX, LineY>>),
     Some(<<LineU, HeadingF2, LineXIndented, LineX, LineY>>),
     Some(<<HeadingZ, LineX, HeadingF, LineY>>),
     Some(<<HeadingF>>)}

MergeResponses ==
    Responses(MaxMergeReleases, MergeTimestamps, MergeBodies, {FALSE})

MergeClis ==
    {Cli(NoneOpt, NoneOpt, NoneOpt, FALSE, m) : m \in BOOLEAN}
    \cup {Cli(Some(<<Tag(1), Tag(1)>>), NoneOpt, NoneOpt, FALSE, FALSE),
          Cli(NoneOpt, Some(Tag(1)), NoneOpt, FALSE, TRUE)}

\* The tags handed to compare_semver: 1.9.1 and 1.10.1 plain, with a v, a prerelease
\* or a build suffix, and tags that are no semantic versions or exceed u32.
SemverTags ==
    {prefix \o <<"1", ".">> \o minor \o <<".", "1">> \o suffix :
        prefix \in {<<>>, <<"v">>},
        minor \in {<<"9">>, <<"1", "0">>},
        suffix \in {<<>>, <<"-", "r", "c", "1">>, <<"+", "b">>}}
    \cup {<<"1", ".", "9", ".", "0">>,
          <<"1", ".", "5">>,
          <<"v", "v", "1", ".", "9", ".", "1">>,
          U32Max \o <<".", "0", ".", "0">>,
          <<"4", "2", "9", "4", "9", "6", "7", "2", "9", "6", ".", "0", ".", "0">>}

\* The lines of the bodies handed to the parser alone.
ParserLines ==
    {HeadingF, LineX, LineXIndented,
     <<>>, <<" ">>,
     <<"#", "\t", "Z">>,
     <<"#", " ", " ">>,
     <<"#", " ">>,
     <<"#", "F">>,
     <<"#", "#", "#", "#", "#", "#", " ", " ", "F", " ">>,
     <<"#", "#", "#", "#", "#", "#", "#", " ", "Z">>,
     <<"#", " ">> \o Uncategorized}

ParserBodies == SeqsOf(ParserLines, 0, MaxBodyLen)

-----------------------------------------------------------------------------
(* Specifications *)

ParserIdle ==
    /\ parse_body = <<>>
    /\ parse_pc = "idle"
    /\ parse_sections = <<>>

SemverIdle ==
    /\ semver_tags = <<>>
    /\ semver_pc = "idle"
    /\ semver_cmp = <<>>

PipelineIdle ==
    /\ response = [status |-> "ok", releases |-> <<>>]
    /\ cli = Cli(NoneOpt, NoneOpt, NoneOpt, FALSE, FALSE)
    /\ pc = "idle"
    /\ all_releases = <<>>
    /\ releases_to_process = <<>>
    /\ merged = <<>>
    /\ markdown = <<>>
    /\ outcome = Running
    /\ run = 1
    /\ first_markdown = <<>>

Start(responses, clis) ==
    /\ response \in responses
    /\ cli \in clis
    /\ pc = "fetch"
    /\ all_releases = <<>>
    /\ releases_to_process = <<>>
    /\ merged = <<>>
    /\ markdown = <<>>
    /\ outcome = Running
    /\ run = 1
    /\ first_markdown = <<>>
    /\ ParserIdle
    /\ SemverIdle

Init == Start(SelectionResponses, SelectionClis)

InitMerge == Start(MergeResponses, MergeClis)

InitParser ==
    /\ parse_body \in ParserBodies
    /\ parse_pc = "call"
    /\ parse_sections = <<>>
    /\ PipelineIdle
    /\ SemverIdle

InitSemver ==
    /\ semver_tags \in [1..3 -> SemverTags]
    /\ semver_pc = "call"
    /\ semver_cmp = <<>>
    /\ PipelineIdle
    /\ ParserIdle

Next ==
    \/ FetchAllReleases
    \/ NoReleases
    \/ SelectByTags
    \/ SelectByRange
    \/ SelectAll
    \/ MergeByVersion
    \/ MergeByHeading
    \/ RenderByVersion
    \/ RenderByHeading
    \/ WriteOutput
    \/ Rerun

NextParser == ParseBody

NextSemver == CompareTags

Spec == Init /\ [][Next]_vars

SpecMerge == InitMerge /\ [][Next]_vars

SpecParser == InitParser /\ [][NextParser]_vars

SpecSemver == InitSemver /\ [][NextSemver]_vars

-----------------------------------------------------------------------------
(* Properties of the selection *)

\* The run is past the selection, which got a non-empty list of candidates.
SelectionDone == all_releases # <<>> /\ pc \notin {"fetch", "select"}

TagsMode == IsSome(cli.versions)
RangeMode == ~IsSome(cli.versions) /\ (IsSome(cli.start_tag) \/ IsSome(cli.end_tag))

CandidateTags == {all_releases[i].tag_name : i \in 1..Len(all_releases)}

\* The index of tag in the candidates (their tags are pairwise different).
IndexOfTag(tag) == CHOOSE i \in 1..Len(all_releases) : all_releases[i].tag_name = tag

\* The requested tags that no candidate has, in request order.
MissingRequested == SelectSeq(Unwrap(cli.versions), LAMBDA t : t \notin CandidateTags)

\* The publish instant a published_at string states, in hours.
Instant(published_at) ==
    24 * published_at.day + published_at.hour - published_at.offset

\* The sequences with the same elements, each as often, as s.
Reorderings(s) ==
    {p \in [1..Len(s) -> {s[i] : i \in 1..Len(s)}] :
        \A x \in {s[i] : i \in 1..Len(s)} :
            Cardinality({i \in 1..Len(s) : p[i] = x})
                = Cardinality({i \in 1..Len(s) : s[i] = x})}

NewestFirstOrder(releases) ==
    \A i, j \in 1..Len(releases) :
        i < j => Instant(releases[i].published_at) >= Instant(releases[j].published_at)

\* C2: explicit-list selection fails exactly when a requested tag is absent from the
\* candidates; the one error then names every absent requested tag, in request
\* order, and no record is returned.
C2_AllMissingTagsNamed ==
    (TagsMode /\ SelectionDone) =>
        /\ MissingRequested # <<>> =>
              /\ pc = "done"
              /\ outcome = Ended("missing_tags", MissingRequested)
              /\ releases_to_process = <<>>
        /\ outcome.kind = "missing_tags" => MissingRequested # <<>>

C2_Witness ==
    /\ TagsMode /\ SelectionDone
    /\ outcome.kind = "missing_tags"
    /\ Len(outcome.tags) = 2
    /\ outcome.tags[1] = AbsentTag
    /\ outcome.tags[2] = Tag(1)

\* C3 as stated: on success the explicit-list selection returns the resolved records
\* newest first, and every ordering of the requested tags gives this same result.
C3_RequestOrderDiscarded ==
    (TagsMode /\ SelectionDone /\ pc = "merge") =>
        /\ NewestFirstOrder(releases_to_process)
        /\ \A p \in Reorderings(Unwrap(cli.versions)) :
              FilterReleasesByTags(all_releases, p).releases = releases_to_process

\* The records the requested tags resolve to, in request order.
Resolved(tags) == [i \in 1..Len(tags) |-> all_releases[IndexOfTag(tags[i])]]

\* C3 amended: on success the result holds the resolved records newest first,
\* records published at the same instant staying in request order; every ordering
\* of the request gives the same result when no two different resolved records
\* were published at the same instant.
C3_NewestFirstTiesInRequestOrder ==
    (TagsMode /\ SelectionDone /\ pc = "merge") =>
        LET requested == Unwrap(cli.versions)
            result == releases_to_process
            sameInstant(list, r) ==
                SelectSeq(list, LAMBDA q : Instant(q.published_at) = Instant(r.published_at))
        IN  /\ Len(result) = Len(requested)
            /\ NewestFirstOrder(result)
            /\ \A i \in 1..Len(result) :
                  sameInstant(result, result[i]) = sameInstant(Resolved(requested), result[i])
            /\ (\A i, j \in 1..Len(result) :
                    result[i] # result[j]
                        => Instant(result[i].published_at) # Instant(result[j].published_at))
                  => \A p \in Reorderings(requested) :
                        FilterReleasesByTags(all_releases, p).releases = result

C3_Witness ==
    /\ TagsMode /\ SelectionDone /\ pc = "merge"
    /\ Len(releases_to_process) = 2
    /\ Instant(releases_to_process[1].published_at)
          > Instant(releases_to_process[2].published_at)
    /\ releases_to_process # Resolved(Unwrap(cli.versions))

\* C4: a range with both tags given and found returns exactly the candidates from the
\* lower to the higher of the two tags' positions, in the candidates' order; one
\* record when both tags are the same.
C4_InclusiveSliceBetweenTags ==
    (RangeMode /\ SelectionDone /\ IsSome(cli.start_tag) /\ IsSome(cli.end_tag)
       /\ Unwrap(cli.start_tag) \in CandidateTags /\ Unwrap(cli.end_tag) \in CandidateTags) =>
        LET s == IndexOfTag(Unwrap(cli.start_tag))
            e == IndexOfTag(Unwrap(cli.end_tag))
            lo == IF s < e THEN s ELSE e
            hi == IF s < e THEN e ELSE s
        IN  /\ outcome.kind \notin {"start_tag_not_found", "end_tag_not_found"}
            /\ Len(releases_to_process) = hi - lo + 1
            /\ \A k \in 1..Len(releases_to_process) :
                  releases_to_process[k] = all_releases[lo + k - 1]
            /\ cli.start_tag = cli.end_tag => Len(releases_to_process) = 1

C4_Witness ==
    /\ RangeMode /\ SelectionDone /\ IsSome(cli.start_tag) /\ IsSome(cli.end_tag)
    /\ Unwrap(cli.start_tag) \in CandidateTags /\ Unwrap(cli.end_tag) \in CandidateTags
    /\ Len(all_releases) = 3
    /\ IndexOfTag(Unwrap(cli.start_tag)) = 3
    /\ IndexOfTag(Unwrap(cli.end_tag)) = 2
    /\ Len(releases_to_process) = 2

C6_RangeFailsOnUnknownTag ==
    (RangeMode /\ SelectionDone) =>
        LET startUnknown == IsSome(cli.start_tag) /\ Unwrap(cli.start_tag) \notin CandidateTags
            endUnknown == IsSome(cli.end_tag) /\ Unwrap(cli.end_tag) \notin CandidateTags
        IN  /\ (startUnknown \/ endUnknown) =>
                  /\ pc = "done"
                  /\ releases_to_process = <<>>
                  /\ outcome.kind \in {"start_tag_not_found", "end_tag_not_found"}
            /\ startUnknown => outcome = Ended("start_tag_not_found", cli.start_tag)
            /\ (endUnknown /\ ~startUnknown) => outcome = Ended("end_tag_not_found", cli.end_tag)

C6_Witness ==
    /\ RangeMode /\ SelectionDone
    /\ IsSome(cli.start_tag) /\ Unwrap(cli.start_tag) \in CandidateTags
    /\ IsSome(cli.end_tag) /\ Unwrap(cli.end_tag) \notin CandidateTags
    /\ Len(all_releases) >= 2
    /\ outcome.kind = "end_tag_not_found"

\* The tags that only prereleases of the response have.
PrereleaseTags ==
    {response.releases[i].tag_name : i \in {j \in 1..Len(response.releases) :
                                              response.releases[j].prerelease}}

\* C7: without --include-prereleases no prerelease is among the candidates or the
\* selected records in any mode, a prerelease's timestamp is never looked at by the
\* date sort, and a prerelease's tag is not found by the explicit-list or range lookup.
C7_PrereleasesDroppedFirst ==
    ~cli.include_prereleases =>
        /\ \A i \in 1..Len(all_releases) : ~all_releases[i].prerelease
        /\ \A i \in 1..Len(releases_to_process) : ~releases_to_process[i].prerelease
        /\ (pc = "done" /\ outcome.kind = "panic" /\ all_releases = <<>>) =>
              \E i \in 1..Len(response.releases) :
                  /\ ~response.releases[i].prerelease
                  /\ ~response.releases[i].published_at.valid
        /\ (TagsMode /\ SelectionDone) =>
              \A k \in 1..Len(Unwrap(cli.versions)) :
                  Unwrap(cli.versions)[k] \in PrereleaseTags =>
                      /\ outcome.kind = "missing_tags"
                      /\ \E m \in 1..Len(outcome.tags) :
                            outcome.tags[m] = Unwrap(cli.versions)[k]
        /\ (RangeMode /\ SelectionDone) =>
              \A t \in {cli.start_tag, cli.end_tag} :
                  (IsSome(t) /\ Unwrap(t) \in PrereleaseTags) =>
                      outcome.kind \in {"start_tag_not_found", "end_tag_not_found"}

C7_Witness ==
    /\ ~cli.include_prereleases
    /\ pc = "merge"
    /\ Len(releases_to_process) = 2
    /\ \E i \in 1..Len(response.releases) :
          /\ response.releases[i].prerelease
          /\ ~response.releases[i].published_at.valid

-----------------------------------------------------------------------------
(* Properties of the parser *)

\* The number of "#" characters the line starts with.
LeadingHashes(line) ==
    Cardinality({k \in 1..Len(line) : \A i \in 1..k : line[i] = "#"})

\* A heading line: one to six "#", then whitespace, then at least one more character.
HeadingLine(line) ==
    LET k == LeadingHashes(line)
    IN  k \in 1..6 /\ Len(line) >= k + 2 /\ line[k + 1] \in {" ", "\t"}

\* The text of a heading line: what follows the "#" characters, without the
\* whitespace around it.
HeadingName(line) ==
    LET rest == SubSeq(line, LeadingHashes(line) + 1, Len(line))
        inked == {i \in 1..Len(rest) : rest[i] \notin {" ", "\t"}}
    IN  IF inked = {} THEN <<>>
        ELSE SubSeq(rest, CHOOSE i \in inked : \A j \in inked : i <= j,
                          CHOOSE i \in inked : \A j \in inked : j <= i)

BlankLine(line) == \A i \in 1..Len(line) : line[i] \in {" ", "\t"}

ContentLine(line) == ~HeadingLine(line) /\ ~BlankLine(line)

\* The section the i-th line of the body belongs to.
SectionAt(body, i) ==
    LET headings == {j \in 1..(i - 1) : HeadingLine(body[j])}
    IN  IF headings = {} THEN Uncategorized
        ELSE HeadingName(body[CHOOSE j \in headings : \A h \in headings : h <= j])

\* The elements of s at the indices in at, in order.
Pick(s, at) ==
    [k \in 1..Cardinality(at) |->
        s[CHOOSE i \in at : Cardinality({j \in at : j < i}) = k - 1]]

\* C8: every section parse_release_notes returns has at least one line, no line it
\* holds is a heading line, and a body of heading lines and blank lines only gives
\* no section at all, "Uncategorized" neither.
C8_NoEmptySectionNoHeadingContent ==
    parse_pc = "returned" =>
        /\ \A name \in DOMAIN parse_sections :
              /\ parse_sections[name] # <<>>
              /\ \A k \in 1..Len(parse_sections[name]) :
                    ~HeadingLine(parse_sections[name][k])
        /\ (\A i \in 1..Len(parse_body) :
                HeadingLine(parse_body[i]) \/ BlankLine(parse_body[i]))
              => DOMAIN parse_sections = {}

C8_Witness ==
    /\ parse_pc = "returned"
    /\ Len(parse_body) = 3
    /\ HeadingLine(parse_body[1]) /\ BlankLine(parse_body[2]) /\ HeadingLine(parse_body[3])
    /\ HeadingName(parse_body[1]) # HeadingName(parse_body[3])
    /\ DOMAIN parse_sections = {}

\* C9: the sections returned are those some content line belongs to, and each holds
\* exactly the content lines (neither blank nor heading) that follow a heading of
\* its name and precede the next heading, or precede every heading for
\* "Uncategorized", unchanged and in the order of the body.
C9_ContentUnderLatestHeading ==
    parse_pc = "returned" =>
        LET content == {i \in 1..Len(parse_body) : ContentLine(parse_body[i])}
        IN  /\ DOMAIN parse_sections = {SectionAt(parse_body, i) : i \in content}
            /\ \A name \in DOMAIN parse_sections :
                  parse_sections[name]
                      = Pick(parse_body, {i \in content : SectionAt(parse_body, i) = name})

C9_Witness ==
    /\ parse_pc = "returned"
    /\ Len(parse_body) = 4
    /\ ContentLine(parse_body[1])
    /\ HeadingLine(parse_body[2]) /\ LeadingHashes(parse_body[2]) = 6
    /\ ContentLine(parse_body[3])
    /\ ContentLine(parse_body[4])
    /\ parse_body[3] # parse_body[4]
    /\ DOMAIN parse_sections = {Uncategorized, <<"F">>}
    /\ Len(parse_sections[<<"F">>]) = 2

-----------------------------------------------------------------------------
(* Properties of the merge and of the rendering *)

\* C1: a second run of main on the same command line and the same API response
\* writes the same document as the first.
C1_SameOutputOnRerun ==
    (run = 2 /\ pc = "done" /\ outcome.kind = "ok") => markdown = first_markdown

\* The version-separated merge has returned its map.
MergedByVersion == ~cli.merge_headings /\ pc = "render"

\* The releases handed to the merge that have a body.
WithBody == {i \in 1..Len(releases_to_process) : IsSome(releases_to_process[i].body)}

\* How often line is a content line of section name in the body of the i-th release.
LinesIn(i, name, line) ==
    LET sections == ParseReleaseNotes(Unwrap(releases_to_process[i].body))
    IN  IF name \in DOMAIN sections
        THEN Cardinality({k \in 1..Len(sections[name]) : sections[name][k] = line})
        ELSE 0

RECURSIVE Sum(_, _)
\* The sum of f over the set S.
Sum(f, S) ==
    IF S = {} THEN 0
    ELSE LET x == CHOOSE x \in S : TRUE IN f[x] + Sum(f, S \ {x})

\* The UTC calendar day of a published_at string.
UtcDay(published_at) ==
    (24 * published_at.day + published_at.hour - published_at.offset) \div 24

\* C10: the version-separated merge has a bucket for exactly the section names of the
\* releases with a body, and a bucket holds an item (content, tag, UTC publish date)
\* once for every occurrence of the content line in that section of a release with
\* that tag and date: nothing is deduplicated, and a release without a body adds
\* nothing.
C10_NoDeduplication ==
    MergedByVersion =>
        /\ DOMAIN merged =
              UNION {DOMAIN ParseReleaseNotes(Unwrap(releases_to_process[i].body)) :
                        i \in WithBody}
        /\ \A name \in DOMAIN merged :
              /\ Len(merged[name]) =
                    Sum([i \in WithBody |->
                            Len(SectionsOf(releases_to_process[i])[name])],
                        {i \in WithBody : name \in DOMAIN SectionsOf(releases_to_process[i])})
              /\ \A k \in 1..Len(merged[name]) :
                    LET item == merged[name][k]
                        from == {i \in WithBody :
                                    /\ releases_to_process[i].tag_name = item.version
                                    /\ UtcDay(releases_to_process[i].published_at) = item.date}
                    IN  Cardinality({m \in 1..Len(merged[name]) : merged[name][m] = item})
                          = Sum([i \in from |-> LinesIn(i, name, item.content)], from)
              /\ \A i \in WithBody :
                    LET sections == SectionsOf(releases_to_process[i])
                    IN  name \in DOMAIN sections =>
                            \A k \in 1..Len(sections[name]) :
                                \E m \in 1..Len(merged[name]) :
                                    merged[name][m] =
                                        [content |-> sections[name][k],
                                         version |-> releases_to_process[i].tag_name,
                                         date |-> UtcDay(releases_to_process[i].published_at)]

C10_Witness ==
    /\ MergedByVersion
    /\ Len(releases_to_process) = 2
    /\ releases_to_process[1].tag_name # releases_to_process[2].tag_name
    /\ <<"F">> \in DOMAIN merged
    /\ \E k, m \in 1..Len(merged[<<"F">>]) :
          /\ merged[<<"F">>][k].content = merged[<<"F">>][m].content
          /\ merged[<<"F">>][k].version # merged[<<"F">>][m].version

\* The heading-deduplicating merge has returned its map.
MergedByHeading == cli.merge_headings /\ pc = "render"

RECURSIVE Stripped(_)
\* The text s without its leading and its trailing whitespace.
Stripped(s) ==
    IF s = <<>> THEN s
    ELSE IF Head(s) \in {" ", "\t"} THEN Stripped(Tail(s))
    ELSE IF s[Len(s)] \in {" ", "\t"} THEN Stripped(SubSeq(s, 1, Len(s) - 1))
    ELSE s

\* The content lines of section name in the body of the i-th release.
SectionLines(i, name) ==
    LET sections == SectionsOf(releases_to_process[i])
    IN  IF name \in DOMAIN sections
        THEN {sections[name][k] : k \in 1..Len(sections[name])}
        ELSE {}

\* C11: in every section of the heading-deduplicating merge the contents are pairwise
\* distinct after trimming, and they are exactly the trimmed content lines of that
\* section over the releases with a body: lines equal after trimming are one item.
C11_OneItemPerTrimmedLine ==
    MergedByHeading =>
        \A name \in DOMAIN merged :
            /\ \A k, m \in 1..Len(merged[name]) :
                  k # m => Stripped(merged[name][k].content)
                              # Stripped(merged[name][m].content)
            /\ {merged[name][k].content : k \in 1..Len(merged[name])}
                  = {Stripped(line) : line \in UNION {SectionLines(i, name) : i \in WithBody}}

C11_Witness ==
    /\ MergedByHeading
    /\ \E name \in DOMAIN merged :
          \E i, j \in WithBody :
              /\ i # j
              /\ \E a, b \in SectionLines(i, name), c \in SectionLines(j, name) :
                    /\ a # b
                    /\ Stripped(a) = Stripped(b)
                    /\ Stripped(a) = Stripped(c)
                    /\ Cardinality({k \in 1..Len(merged[name]) :
                                       merged[name][k].content = Stripped(a)}) = 1

\* The versions that contributed an item.
SourceVersions(item) == {item.sources[k] : k \in 1..Len(item.sources)}

\* C12: the heading-deduplicating merge orders the items of a section by the number
\* of versions that contributed them, descending, and by content ascending on ties:
\* an item contributed by more versions precedes an item contributed by fewer.
C12_MoreVersionsFirst ==
    MergedByHeading =>
        \A name \in DOMAIN merged :
            \A k, m \in 1..Len(merged[name]) :
                k < m =>
                    LET a == merged[name][k]
                        b == merged[name][m]
                    IN  \/ Cardinality(SourceVersions(a)) > Cardinality(SourceVersions(b))
                        \/ /\ Cardinality(SourceVersions(a)) = Cardinality(SourceVersions(b))
                           /\ StrCmp(a.content, b.content) = "Less"

\* A renderer has returned its document.
Rendered == pc = "write"

\* The line is a second-level heading: two hashes, a space, a name.
SecondLevelHeading(line) ==
    /\ Len(line) > 3
    /\ line[1] = "#" /\ line[2] = "#" /\ line[3] = " "

\* The names of the second-level headings of the document, in document order.
SectionHeadings ==
    LET headings == SelectSeq(markdown, SecondLevelHeading)
    IN  [k \in 1..Len(headings) |-> SubSeq(headings[k], 4, Len(headings[k]))]

\* C13: the document of either renderer has one second-level heading for every
\* section of the merged map and no other, the names ascending as strings except that
\* "Uncategorized" comes after every other name.
C13_SectionsSortedUncategorizedLast ==
    Rendered =>
        /\ Len(SectionHeadings) = Cardinality(DOMAIN merged)
        /\ {SectionHeadings[k] : k \in 1..Len(SectionHeadings)} = DOMAIN merged
        /\ \A k, m \in 1..Len(SectionHeadings) :
              k < m =>
                  /\ SectionHeadings[k] # Uncategorized
                  /\ \/ SectionHeadings[m] = Uncategorized
                     \/ StrCmp(SectionHeadings[k], SectionHeadings[m]) = "Less"

C13_Witness ==
    /\ Rendered
    /\ DOMAIN merged = {<<"F">>, <<"Z">>, Uncategorized}
    /\ SectionHeadings = <<<<"F">>, <<"Z">>, Uncategorized>>

\* The version-separated renderer has returned its document.
RenderedByVersion == ~cli.merge_headings /\ pc = "write"

\* The lines of the document below the heading of section name, up to the next
\* second-level heading.
SectionText(name) ==
    LET at == CHOOSE k \in 1..Len(markdown) : markdown[k] = <<"#", "#", " ">> \o name
        later == {k \in (at + 1)..Len(markdown) : SecondLevelHeading(markdown[k])}
    IN  SubSeq(markdown, at + 1,
               IF later = {} THEN Len(markdown)
               ELSE (CHOOSE k \in later : \A j \in later : k <= j) - 1)

\* The line is a third-level heading: three hashes, a space, a text.
ThirdLevelHeading(line) ==
    /\ Len(line) > 4
    /\ line[1] = "#" /\ line[2] = "#" /\ line[3] = "#" /\ line[4] = " "

\* The lines of the group whose heading is line k of text: those after the blank line
\* that follows the heading, up to the next blank line.
GroupLines(text, k) ==
    LET blanks == {j \in (k + 2)..Len(text) : text[j] = <<>>}
    IN  SubSeq(text, k + 2,
               IF blanks = {} THEN Len(text)
               ELSE (CHOOSE j \in blanks : \A i \in blanks : j <= i) - 1)

\* The heading of the group of a (version, date) pair, the date a day of January 2023.
GroupHeading(key) ==
    <<"#", "#", "#", " ">> \o key[1]
    \o <<" ", "(", "2", "0", "2", "3", "-", "0", "1", "-">>
    \o <<Digits[(key[2] \div 10) + 1], Digits[(key[2] % 10) + 1]>> \o <<")">>

\* C14: in the document of generate_markdown every section has one third-level heading
\* "version (YYYY-MM-DD)" for every (version, date) pair of its items and no other,
\* followed by the contents of the items of that pair in the order of the merged
\* list, and a group never stands above a group of a later date.
C14_GroupsNewestFirst ==
    RenderedByVersion =>
        \A name \in DOMAIN merged :
            LET text == SectionText(name)
                items == merged[name]
                keys == {<<items[k].version, items[k].date>> : k \in 1..Len(items)}
                groups == {k \in 1..Len(text) : ThirdLevelHeading(text[k])}
            IN  /\ Cardinality(groups) = Cardinality(keys)
                /\ \A key \in keys :
                      \E k \in groups :
                          /\ text[k] = GroupHeading(key)
                          /\ LET of_key == SelectSeq(items, LAMBDA item :
                                               <<item.version, item.date>> = key)
                             IN  GroupLines(text, k)
                                   = [j \in 1..Len(of_key) |-> of_key[j].content]
                /\ \A k, m \in groups :
                      \A a, b \in keys :
                          (k < m /\ text[k] = GroupHeading(a) /\ text[m] = GroupHeading(b))
                              => a[2] >= b[2]

C14_Witness ==
    /\ RenderedByVersion
    /\ \E name \in DOMAIN merged :
          /\ \E k, m \in 1..Len(merged[name]) :
                merged[name][k].date # merged[name][m].date
          /\ \E k, m \in 1..Len(merged[name]) :
                /\ k < m
                /\ merged[name][k].version = merged[name][m].version
                /\ merged[name][k].content # merged[name][m].content

\* The heading-deduplicated renderer has returned its document.
RenderedByHeading == cli.merge_headings /\ pc = "write"

RECURSIVE TagList(_)
\* The tags of the set S ascending as strings, joined by ", ".
TagList(S) ==
    IF S = {} THEN <<>>
    ELSE LET least == CHOOSE t \in S : \A u \in S : u = t \/ StrCmp(t, u) = "Less"
         IN  IF S = {least} THEN least
             ELSE least \o <<",", " ">> \o TagList(S \ {least})

\* The note below an item that the versions of the set S contributed.
SourceNote(S) ==
    IF Cardinality(S) > 1
    THEN <<"*", "(", "P", "r", "e", "s", "e", "n", "t", " ", "i", "n", " ",
           "v", "e", "r", "s", "i", "o", "n", "s", ":", " ">> \o TagList(S) \o <<")", "*">>
    ELSE <<"*", "(", "F", "r", "o", "m", " ", "v", "e", "r", "s", "i", "o", "n", ":", " ">>
         \o TagList(S) \o <<")", "*">>

\* C15: in the document of the heading-deduplicated renderer the items of a section
\* stand in the order of the merged list, each as its content line followed by a note:
\* "Present in versions" with the contributing tags ascending and joined by ", " when
\* more than one version contributed the line, "From version" when one version did.
C15_NoteTellsSourceVersions ==
    RenderedByHeading =>
        \A name \in DOMAIN merged :
            LET text == SectionText(name)
            IN  /\ Len(text) = 3 * Len(merged[name]) + 2
                /\ text[1] = <<>>
                /\ \A k \in 1..Len(merged[name]) :
                      /\ text[3 * k - 1] = merged[name][k].content
                      /\ text[3 * k] = SourceNote(SourceVersions(merged[name][k]))
                      /\ text[3 * k + 1] = <<>>

\* C17: a run that selected a release whose publish timestamp does not parse never ends
\* with its document written, whatever the selection and whichever merge.
C17_BadTimestampIsFatal ==
    (\E i \in 1..Len(releases_to_process) : ~releases_to_process[i].published_at.valid)
        => outcome.kind # "ok"

-----------------------------------------------------------------------------
(* Properties of compare_semver *)

\* compare_semver has returned for every pair of the three tags.
Compared == semver_pc = "returned"

\* MAJOR, MINOR and PATCH of a semantic-version tag, as numbers in decimal.
VersionTriple(tag) ==
    LET bare == IF tag[1] \in {"v", "V"} THEN Tail(tag) ELSE tag
        core == Split(Before(Before(bare, "+"), "-"), ".")
    IN  [k \in 1..3 |-> StripZeros(core[k])]

\* The ordering of two triples of numbers, the first difference deciding.
TripleCmp(a, b) ==
    IF DecimalCmp(a[1], b[1]) # "Equal" THEN DecimalCmp(a[1], b[1])
    ELSE IF DecimalCmp(a[2], b[2]) # "Equal" THEN DecimalCmp(a[2], b[2])
    ELSE DecimalCmp(a[3], b[3])

\* C16: for two tags that both satisfy is_semver, compare_semver returns the ordering
\* of their (MAJOR, MINOR, PATCH) triples compared as numbers, so Equal for equal
\* triples whatever prerelease or build suffix the tags have.
C16_ComparesVersionTriples ==
    Compared =>
        \A i, j \in 1..3 :
            (IsSemver(semver_tags[i]) /\ IsSemver(semver_tags[j])) =>
                semver_cmp[<<i, j>>] = TripleCmp(VersionTriple(semver_tags[i]),
                                                 VersionTriple(semver_tags[j]))

\* The ordering seen from the other side.
Reversed(ordering) ==
    CASE ordering = "Less" -> "Greater"
      [] ordering = "Greater" -> "Less"
      [] ordering = "Equal" -> "Equal"

\* C18: over tags that mix semantic versions and other tags, compare_semver is
\* antisymmetric, compare(a, b) being the reverse of compare(b, a), and transitive,
\* a before b and b before c giving a before c.
C18_ConsistentOrdering ==
    Compared =>
        /\ \A i, j \in 1..3 : semver_cmp[<<i, j>>] = Reversed(semver_cmp[<<j, i>>])
        /\ \A i, j, k \in 1..3 :
              (semver_cmp[<<i, j>>] = "Less" /\ semver_cmp[<<j, k>>] = "Less")
                  => semver_cmp[<<i, k>>] = "Less"

====
